---- MODULE Spec2Model ----
(***************************************************************************)
(* A model of exa_watcher.py: the lock file of the database directory,    *)
(* the processing pass of main (scan_for_jobs / process_jobs per project) *)
(* and the per-job status file .exawatcher/last_status.txt.               *)
(*                                                                         *)
(* Spec      one invocation at a time running processing passes over a    *)
(*           small tree of job folders whose marker files change.         *)
(* SpecLock  several invocations of main interleaving on the lock file.   *)
(***************************************************************************)
EXTENDS Integers, Sequences, FiniteSets, TLC

\* ------------------------------------------------------------------ bounds

\* processing passes started in one behaviour of Spec
MaxPasses == 2
\* marker files created or deleted by the environment in one behaviour
MaxToggles == 2
\* invocations started per process in one behaviour of SpecLock
MaxRuns == 2

\* ------------------------------------------------------- program constants

\* the values RelionJob.check_status can assign
StatusValues == {"Pending", "Running", "Failed", "User Abort", "Finished"}

\* the files check_status looks for in a job folder
MarkerFiles ==
    {"run.out", "RELION_JOB_EXIT_FAILURE", "RELION_JOB_EXIT_ABORTED",
     "RELION_JOB_EXIT_SUCCESS"}

\* Settings.job_types, in dict (insertion) order
job_types ==
    << "Class3D", "CtfRefine", "Extract", "InitialModel", "PostProcess",
       "Refine3D", "MultiBody", "MaskCreate" >>

\* ------------------------------------------------------------ the file tree

\* db['projects']: project name -> directory, in dict order
RegistryProjects == << "P1", "P2" >>

\* a --process-project name that is not a key of db['projects']
UnknownProject == "ghost"

\* The job folders glob finds.  F1 is P1/Class3D/job100, F2 is
\* P1/Extract/job1000 (the regex job([0-9]{3}) reads "100" from both),
\* F3 is P2/CtfRefine/job001.
Folders == {"F1", "F2", "F3"}

FolderProject == [F1 |-> "P1", F2 |-> "P1", F3 |-> "P2"]

\* re.search('job([0-9]{3})', path).group(1)
FolderNumber == [F1 |-> "100", F2 |-> "100", F3 |-> "001"]

\* the names of job_types that occur as substrings of the folder's path
FolderNames == [F1 |-> {"Class3D"}, F2 |-> {"Extract"}, F3 |-> {"CtfRefine"}]

NoStatus == "none"

VARIABLES
    markers,        \* folder -> set of marker files present
    status_file,    \* folder -> content of .exawatcher/last_status.txt, or NoStatus
    ignore_jobs,    \* settings['ignore_jobs']
    lock_file,      \* whether .dblock exists
    pc,             \* position of the invocation of Spec in main
    args,           \* its command line
    target,         \* index into process_targets
    all_jobs,       \* folders of the glob not yet iterated by scan_for_jobs
    usable_jobs,    \* Project.usable_jobs: sequence of job objects in dict order
    job_index,      \* position of process_jobs in usable_jobs.values()
    result,         \* how the last invocation ended
    passes,         \* invocations started
    toggles,        \* marker changes made
    store_before,   \* status_file when the invocation started
    constructed,    \* folder -> what scan_for_jobs built from it in this pass
    evaluated,      \* folders process_jobs has looked at in this pass
    extracted,      \* folder -> finished_process calls in this pass
    attempts,       \* folder -> announce calls in this pass
    sent,           \* folder -> chat_postMessage calls that succeeded in this pass
    unchanged,      \* folders whose markers did not change since they were last constructed
    repeat,         \* this pass is ordinary and follows, with nothing changed in between,
                    \* an ordinary pass over the same targets that ran to its end
    absorbed,       \* folders scanned by the --no-process pass that came just before
                    \* this invocation, with nothing changed in between
    found_lock,     \* the lock file existed when check_lock of this invocation ran
    folder_names,   \* folder -> the names of job_types that occur in its path
    frozen,         \* folder -> "frozen" once a scan skipped it because its type
                    \* is ignored, "thawed" in the pass that constructs it next,
                    \* "no" otherwise
    \* the registry, and the invocations that load and write it
    disk_db,        \* the registry file: its content as last dumped
    db,             \* Database.db of each invocation, loaded at line 573
    rpc,            \* position of each invocation: "exited", "loaded", "pass"
    rargs,          \* the command line of each invocation
    rexit,          \* exit status of each invocation, -1 while it runs
    at_exit,        \* the registry file as it was when the invocation ended
    mid_pass,       \* projects other invocations added and committed while
                    \* this invocation was in its pass
    rruns,          \* invocations started so far
    \* the registry document, key by key
    store_start,    \* the registry file before the invocation
    store_file,     \* the registry file: whether it exists, and its JSON document
    store_db,       \* Database.db of the invocation
    store_pc,       \* position of the invocation: "start", "loaded", "exited"
    store_op,       \* what the command line asks for
    store_result,   \* "none" while it runs, then "ok" or the exception raised
    lpc,            \* SpecLock: process -> position in main
    largs,          \* SpecLock: process -> command line
    acquired,       \* SpecLock: process -> created the lock file in this invocation
    released,       \* SpecLock: process -> removed the lock file in close_db
    lexit,          \* SpecLock: process -> exit code of the last invocation, -1 while running
    runs,           \* SpecLock: process -> invocations started
    forced,         \* SpecLock: a --clear-lock has removed an existing lock file
    lock_owner,     \* SpecLock: the invocation that created the lock file last,
                    \* "nobody" when there is no lock file
    release         \* SpecLock: process -> what os.remove of its close_db met:
                    \* "none" (not reached), "own", "other", "missing"

passVars ==
    << markers, status_file, ignore_jobs, pc, args, target, all_jobs,
       usable_jobs, job_index, result, passes, toggles, store_before,
       constructed, evaluated, extracted, attempts, sent, unchanged, repeat,
       absorbed, found_lock, folder_names, frozen >>

lockVars ==
    << lpc, largs, acquired, released, lexit, runs, forced, lock_owner, release >>

storeVars ==
    << store_start, store_file, store_db, store_pc, store_op, store_result >>

regVars ==
    << disk_db, db, rpc, rargs, rexit, at_exit, mid_pass, rruns, storeVars >>

vars == << passVars, lock_file, lockVars, regVars >>

\* ------------------------------------------------------------ pure helpers

\* check_status with the EXIT_FAILURE test moved behind the EXIT_SUCCESS test
check_status_reordered(present) ==
    LET s0 == "Pending"
        s1 == IF "run.out" \in present THEN "Running" ELSE s0
        s3 == IF "RELION_JOB_EXIT_ABORTED" \in present THEN "User Abort" ELSE s1
        s4 == IF "RELION_JOB_EXIT_SUCCESS" \in present THEN "Finished" ELSE s3
        s2 == IF "RELION_JOB_EXIT_FAILURE" \in present THEN "Failed" ELSE s4
    IN  s2

\* RelionJob.check_status: four tests in sequence, each overwriting status
check_status(present) ==
    LET s0 == "Pending"
        s1 == IF "run.out" \in present THEN "Running" ELSE s0
        s2 == IF "RELION_JOB_EXIT_FAILURE" \in present THEN "Failed" ELSE s1
        s3 == IF "RELION_JOB_EXIT_ABORTED" \in present THEN "User Abort" ELSE s2
        s4 == IF "RELION_JOB_EXIT_SUCCESS" \in present THEN "Finished" ELSE s3
    IN  s4

\* Settings.available_jobs: the keys of job_types not in ignore_jobs, in order
available_jobs(ignored) == SelectSeq(job_types, LAMBDA x : x \notin ignored)

\* scan_for_jobs taking the last of the matching types, not the first
MatchJobTypeLast(f, ignored) ==
    LET found == SelectSeq(available_jobs(ignored), LAMBDA x : x \in folder_names[f])
    IN  IF found = << >> THEN "False" ELSE found[Len(found)]

\* scan_for_jobs: [x for x in available_jobs.keys() if x in job][0], or False
MatchJobType(f, ignored) ==
    LET found == SelectSeq(available_jobs(ignored), LAMBDA x : x \in folder_names[f])
    IN  IF found = << >> THEN "False" ELSE Head(found)

\* RelionJob.__init__: old_status read from the status file; a missing
\* .exawatcher directory or status file is seeded with 'Pending'
ReadOldStatus(content) == IF content = NoStatus THEN "Pending" ELSE content

\* write_status that leaves the file as it was
write_status_skipped(files, f, new_status) == files

\* write_status with a status path that does not depend on the job folder
write_status_shared(files, f, new_status) == [g \in DOMAIN files |-> new_status]

\* write_status that writes the status read at construction, not the new one
write_status_seed(files, f, new_status) == [files EXCEPT ![f] = ReadOldStatus(@)]

\* RelionJob.write_status
write_status(files, f, new_status) == [files EXCEPT ![f] = new_status]

\* the test of process_jobs without the comparison of the two statuses
ShouldProcessAlways(job, force) == TRUE

\* process_jobs: the test that guards finished_process and announce
ShouldProcess(job, force) == job.status # job.old_status \/ force

\* line 629 without the test of --no-process
SkipProcessingNever(a) == FALSE

\* main, line 629: process_jobs is not called under --no-process
SkipProcessing(a) == a.no_process

\* process_jobs without the call of finished_process
ShouldExtractNever(job) == FALSE

\* process_jobs: finished_process is called only for a Finished job
ShouldExtract(job) == job.status = "Finished"

\* The outcomes of finished_process per job class.  JobExtract reads
\* self.location, which no class defines: it always raises.  JobCtfRefine
\* only appends a path.  The others read files of the job folder and raise
\* when one is missing or lacks the expected line.
finished_process(job_type) ==
    CASE job_type = "Extract" -> {"raise"}
      [] job_type = "CtfRefine" -> {"ok"}
      [] OTHER -> {"ok", "raise"}

\* RelionJob.announce: chat_postMessage either returns or raises
\* SlackApiError; with files attached files_upload may raise after the
\* message was posted.
announce(has_files) ==
    IF has_files THEN {"ok", "post_raise", "upload_raise"} ELSE {"ok", "post_raise"}

\* usable_jobs[job_num] = job: a new key is appended, an existing key keeps
\* its position and gets the new value
DictSet(d, job) ==
    IF \E i \in 1..Len(d) : d[i].number = job.number
    THEN [i \in 1..Len(d) |-> IF d[i].number = job.number THEN job ELSE d[i]]
    ELSE Append(d, job)


\* ------------------------------------------------------------------- inputs

\* process_targets: db.current_projects for --process-all, else the
\* --process-project names in the order given (passes over P2 alone are
\* those of TargetArgs)
TargetLists == { RegistryProjects, << "P1" >> }

\* the command lines that request a processing pass
\* (--no-process makes --force-process irrelevant: line 629)
PassArgs ==
    { a \in [ targets : TargetLists, force_process : BOOLEAN, no_process : BOOLEAN ] :
        ~(a.force_process /\ a.no_process) }

\* the job types the --toggle-job-process invocations of the model name
ToggleChoices == {"Extract"}

NoArgs == [ targets |-> << >>, force_process |-> FALSE, no_process |-> FALSE ]

Zero == [f \in Folders |-> 0]

\* the entry of constructed for a folder no job was built from
NotScanned ==
    [ scanned |-> FALSE, old_status |-> NoStatus, status |-> NoStatus,
      same_markers |-> FALSE, type |-> "False" ]

\* at the start of an invocation no folder is in its thawing pass any more
Settled(fr) == [f \in DOMAIN fr |-> IF fr[f] = "thawed" THEN "no" ELSE fr[f]]

\* check_lock without the test of os.path.exists
LockSeenNever(lock, clear) == FALSE

\* os.path.exists(self.lock_file) as check_lock sees it, after the
\* clear_lock call of main when --clear-lock was given
LockSeen(lock, clear) == lock /\ ~clear

\* ------------------------------------------------------------ initial state

\* the invocation of Spec before its first pass, no status file written yet
InitNoPass ==
    /\ status_file = [f \in Folders |-> NoStatus]
    /\ pc = "idle"
    /\ args = NoArgs
    /\ target = 0
    /\ all_jobs = {}
    /\ usable_jobs = << >>
    /\ job_index = 0
    /\ result = "none"
    /\ passes = 0
    /\ toggles = 0
    /\ store_before = [f \in Folders |-> NoStatus]
    /\ constructed = [f \in Folders |-> NotScanned]
    /\ evaluated = {}
    /\ extracted = Zero
    /\ attempts = Zero
    /\ sent = Zero
    /\ unchanged = {}
    /\ repeat = FALSE
    /\ absorbed = {}
    /\ found_lock = FALSE
    /\ frozen = [f \in Folders |-> "no"]

\* no invocation has run yet and no job type is ignored
InitIdle ==
    /\ ignore_jobs = {}
    /\ InitNoPass

\* no job has started yet: no marker file exists
InitPass ==
    /\ markers = [f \in Folders |-> {}]
    /\ folder_names = FolderNames
    /\ InitIdle

\* ------------------------------------------------ the invocation of Spec

\* the loop state of main is dropped when the invocation ends
EndInvocation(how) ==
    /\ pc' = "idle"
    /\ result' = how
    /\ target' = 0
    /\ all_jobs' = {}
    /\ usable_jobs' = << >>
    /\ job_index' = 0

\* the exit status of the invocation that ended with result: sys.exit(1) in
\* check_lock, sys.exit(2) in create_slack_client, 1 for an uncaught
\* exception, 0 after close_db
ExitCode ==
    CASE result = "done" -> 0
      [] result = "auth_failed" -> 2
      [] result \in {"locked", "crashed"} -> 1
      [] OTHER -> 0

\* main up to and including check_lock (lines 571-609), for a command line
\* a that requests a pass, with (clear) or without --clear-lock: clear_lock
\* if asked, then exit(1) when the lock file exists, else create it
Main(a, clear) ==
    /\ pc = "idle"
    /\ passes < MaxPasses
    /\ passes' = passes + 1
    /\ args' = a
    /\ store_before' = status_file
    /\ constructed' = [f \in Folders |-> NotScanned]
    /\ evaluated' = {}
    /\ extracted' = Zero
    /\ attempts' = Zero
    /\ sent' = Zero
    /\ repeat' = (result = "done" /\ args = a /\ ~a.force_process /\ ~a.no_process)
    /\ absorbed' = IF args.no_process THEN {f \in Folders : constructed[f].scanned} ELSE {}
    /\ found_lock' = (lock_file /\ ~clear)
    /\ frozen' = Settled(frozen)
    /\ IF LockSeen(lock_file, clear)
       THEN /\ EndInvocation("locked")
            /\ UNCHANGED lock_file
       ELSE /\ lock_file' = TRUE
            /\ pc' = "auth"
            /\ result' = "running"
            /\ UNCHANGED << target, all_jobs, usable_jobs, job_index >>
    /\ UNCHANGED << markers, status_file, ignore_jobs, toggles, unchanged, lockVars,
                    regVars, folder_names >>

\* create_slack_client (lines 560-569, called at 616-619): auth_test
\* passes, or raises SlackApiError and the process exits with code 2
CreateSlackClient ==
    /\ pc = "auth"
    /\ \E ok \in BOOLEAN :
          IF ok
          THEN /\ pc' = "project"
               /\ target' = 1
               /\ UNCHANGED << result, all_jobs, usable_jobs, job_index >>
          ELSE EndInvocation("auth_failed")
    /\ UNCHANGED << markers, status_file, ignore_jobs, lock_file, args, passes,
                    toggles, store_before, constructed, evaluated, extracted,
                    attempts, sent, unchanged, repeat, absorbed, found_lock,
                    lockVars, regVars, folder_names, frozen >>

\* the head of the loop of main (621-628) and of scan_for_jobs (171-173):
\* a name that is no key of db['projects'] gives project_dir None and
\* os.path.join raises TypeError
ScanBegin ==
    /\ pc = "project"
    /\ target <= Len(args.targets)
    /\ LET name == args.targets[target] IN
       IF name = UnknownProject
       THEN EndInvocation("crashed")
       ELSE /\ all_jobs' = {f \in Folders : FolderProject[f] = name}
            /\ usable_jobs' = << >>
            /\ pc' = "scan"
            /\ UNCHANGED << result, target, job_index >>
    /\ UNCHANGED << markers, status_file, ignore_jobs, lock_file, args, passes,
                    toggles, store_before, constructed, evaluated, extracted,
                    attempts, sent, unchanged, repeat, absorbed, found_lock,
                    lockVars, regVars, folder_names, frozen >>

\* RelionJob.__init__ (206-235) as far as the status file goes
NewJob(f, job_type) ==
    [ number |-> FolderNumber[f], folder |-> f, type |-> job_type,
      old_status |-> ReadOldStatus(status_file[f]),
      status |-> check_status(markers[f]) ]

\* one iteration of the loop of scan_for_jobs (174-194); glob returns the
\* folders in an order the file system decides
ScanJob(f) ==
    /\ pc = "scan"
    /\ f \in all_jobs
    /\ all_jobs' = all_jobs \ {f}
    /\ LET job_type == MatchJobType(f, ignore_jobs) IN
       IF job_type = "False"
       THEN /\ frozen' = IF MatchJobType(f, {}) # "False"
                         THEN [frozen EXCEPT ![f] = "frozen"] ELSE frozen
            /\ UNCHANGED << status_file, usable_jobs, constructed, unchanged >>
       ELSE LET job == NewJob(f, job_type) IN
            /\ frozen' = [frozen EXCEPT ![f] = IF @ = "frozen" THEN "thawed" ELSE @]
            /\ status_file' = write_status(status_file, f, job.status)
            /\ usable_jobs' = DictSet(usable_jobs, job)
            /\ constructed' =
                 [constructed EXCEPT ![f] =
                    [ scanned |-> TRUE, old_status |-> job.old_status,
                      status |-> job.status, same_markers |-> f \in unchanged,
                      type |-> job_type ]]
            /\ unchanged' = unchanged \cup {f}
    /\ UNCHANGED << markers, ignore_jobs, lock_file, pc, args, target, job_index,
                    result, passes, toggles, store_before, evaluated, extracted,
                    attempts, sent, repeat, absorbed, found_lock, lockVars, regVars,
                    folder_names >>

\* the end of scan_for_jobs and line 629: --no-process skips process_jobs
ScanEnd ==
    /\ pc = "scan"
    /\ all_jobs = {}
    /\ IF SkipProcessing(args)
       THEN /\ pc' = "project"
            /\ target' = target + 1
            /\ usable_jobs' = << >>
            /\ UNCHANGED job_index
       ELSE /\ pc' = "process"
            /\ job_index' = 1
            /\ UNCHANGED << target, usable_jobs >>
    /\ UNCHANGED << markers, status_file, ignore_jobs, lock_file, args, all_jobs,
                    result, passes, toggles, store_before, constructed, evaluated,
                    extracted, attempts, sent, unchanged, repeat, absorbed, found_lock,
                    lockVars, regVars, folder_names, frozen >>

\* one iteration of the loop of process_jobs (197-202): finished_process
\* and announce have no exception handler, so a raise ends the invocation
ProcessJob ==
    /\ pc = "process"
    /\ job_index <= Len(usable_jobs)
    /\ LET job == usable_jobs[job_index]
           f == job.folder
       IN
       /\ evaluated' = evaluated \cup {f}
       /\ IF ~ShouldProcess(job, args.force_process)
          THEN /\ job_index' = job_index + 1
               /\ UNCHANGED << pc, result, target, all_jobs, usable_jobs,
                               extracted, attempts, sent >>
          ELSE \E fp \in (IF ShouldExtract(job) THEN finished_process(job.type)
                                                ELSE {"skip"}) :
                 /\ extracted' = [extracted EXCEPT ![f] = @ + (IF fp = "skip" THEN 0 ELSE 1)]
                 /\ IF fp = "raise"
                    THEN /\ EndInvocation("crashed")
                         /\ UNCHANGED << attempts, sent >>
                    ELSE \E an \in announce(fp = "ok") :
                           /\ attempts' = [attempts EXCEPT ![f] = @ + 1]
                           /\ sent' = [sent EXCEPT ![f] = @ + (IF an = "post_raise" THEN 0 ELSE 1)]
                           /\ IF an = "ok"
                              THEN /\ job_index' = job_index + 1
                                   /\ UNCHANGED << pc, result, target, all_jobs,
                                                   usable_jobs >>
                              ELSE EndInvocation("crashed")
    /\ UNCHANGED << markers, status_file, ignore_jobs, lock_file, args, passes,
                    toggles, store_before, constructed, unchanged, repeat, absorbed, found_lock,
                    lockVars, regVars, folder_names, frozen >>

\* the end of process_jobs: main goes on to the next target
ProcessEnd ==
    /\ pc = "process"
    /\ job_index > Len(usable_jobs)
    /\ pc' = "project"
    /\ target' = target + 1
    /\ usable_jobs' = << >>
    /\ job_index' = 0
    /\ UNCHANGED << markers, status_file, ignore_jobs, lock_file, args, all_jobs,
                    result, passes, toggles, store_before, constructed, evaluated,
                    extracted, attempts, sent, unchanged, repeat, absorbed, found_lock,
                    lockVars, regVars, folder_names, frozen >>

\* close_db (140-142) at the end of main: commit, then os.remove(lock_file),
\* which raises FileNotFoundError when the file is gone
CloseDb ==
    /\ pc = "project"
    /\ target > Len(args.targets)
    /\ IF lock_file
       THEN /\ lock_file' = FALSE
            /\ EndInvocation("done")
       ELSE /\ EndInvocation("crashed")
            /\ UNCHANGED lock_file
    /\ UNCHANGED << markers, status_file, ignore_jobs, args, passes, toggles,
                    store_before, constructed, evaluated, extracted, attempts,
                    sent, unchanged, repeat, absorbed, found_lock,
                    lockVars, regVars, folder_names, frozen >>

\* the record of the last pass is dropped as soon as anything else happens
ForgetPass ==
    /\ args' = NoArgs
    /\ result' = "none"
    /\ store_before' = [f \in Folders |-> NoStatus]
    /\ constructed' = [f \in Folders |-> NotScanned]
    /\ evaluated' = {}
    /\ extracted' = Zero
    /\ attempts' = Zero
    /\ sent' = Zero
    /\ repeat' = FALSE
    /\ absorbed' = {}
    /\ found_lock' = FALSE
    /\ frozen' = Settled(frozen)

\* an invocation with --toggle-job-process t and no processing option:
\* Settings.toggle_ignore_job (66-78) then commit_change, then exit(0)
ToggleIgnoreJob(t) ==
    /\ pc = "idle"
    /\ ignore_jobs' = IF t \in ignore_jobs THEN ignore_jobs \ {t}
                                            ELSE ignore_jobs \cup {t}
    /\ ForgetPass
    /\ UNCHANGED << markers, status_file, lock_file, pc, target, all_jobs,
                    usable_jobs, job_index, passes, toggles, unchanged, lockVars,
                    regVars, folder_names >>

\* the environment: RELION (or the user) creates or deletes one marker file.
\* A job's markers are read once per pass, when the job is constructed, so
\* a change during a pass acts like one just before or just after it.
ToggleMarker(f, m) ==
    /\ pc = "idle"
    /\ toggles < MaxToggles
    /\ toggles' = toggles + 1
    /\ markers' = [markers EXCEPT ![f] = IF m \in @ THEN @ \ {m} ELSE @ \cup {m}]
    /\ unchanged' = unchanged \ {f}
    /\ ForgetPass
    /\ UNCHANGED << status_file, ignore_jobs, lock_file, pc, target, all_jobs,
                    usable_jobs, job_index, passes, lockVars, regVars, folder_names >>

\* ---------------------------------------- the invocations of SpecLock

\* the processes (cron runs, shells) that invoke exa_watcher.py on one --db
Procs == {"a", "b"}

\* the command lines of SpecLock: with or without --clear-lock, with or
\* without a processing option
LockArgs == [ clear_lock : BOOLEAN, process : BOOLEAN ]

InitLock ==
    /\ lock_file = FALSE
    /\ lpc = [p \in Procs |-> "exited"]
    /\ largs = [p \in Procs |-> [clear_lock |-> FALSE, process |-> FALSE]]
    /\ acquired = [p \in Procs |-> FALSE]
    /\ released = [p \in Procs |-> FALSE]
    /\ lexit = [p \in Procs |-> 0]
    /\ runs = [p \in Procs |-> 0]
    /\ forced = FALSE
    /\ lock_owner = "nobody"
    /\ release = [p \in Procs |-> "none"]

\* Database.clear_lock (131-133): remove the lock file if it exists
clear_lock(lock) == FALSE

\* sys.exit(code), or an uncaught exception (code 1)
Exit(p, code) ==
    /\ lpc' = [lpc EXCEPT ![p] = "exited"]
    /\ lexit' = [lexit EXCEPT ![p] = code]

\* main from line 573 to line 605: the registry work, clear_lock when
\* --clear-lock was given, exit(0) when no processing was requested
InvokeMain(p, a) ==
    /\ lpc[p] = "exited"
    /\ runs[p] < MaxRuns
    /\ runs' = [runs EXCEPT ![p] = @ + 1]
    /\ largs' = [largs EXCEPT ![p] = a]
    /\ acquired' = [acquired EXCEPT ![p] = FALSE]
    /\ released' = [released EXCEPT ![p] = FALSE]
    /\ lock_file' = IF a.clear_lock THEN clear_lock(lock_file) ELSE lock_file
    /\ forced' = (forced \/ (a.clear_lock /\ lock_file))
    /\ lock_owner' = IF a.clear_lock THEN "nobody" ELSE lock_owner
    /\ release' = [release EXCEPT ![p] = "none"]
    /\ IF a.process
       THEN /\ lpc' = [lpc EXCEPT ![p] = "check_lock"]
            /\ lexit' = [lexit EXCEPT ![p] = -1]
       ELSE Exit(p, 0)
    /\ UNCHANGED << passVars, regVars >>

\* Database.check_lock, line 125-127: the os.path.exists test
check_lock(p) ==
    /\ lpc[p] = "check_lock"
    /\ IF lock_file
       THEN Exit(p, 1)
       ELSE /\ lpc' = [lpc EXCEPT ![p] = "create_lock"]
            /\ UNCHANGED lexit
    /\ UNCHANGED << passVars, regVars, lock_file, largs, acquired, released, runs, forced,
                    lock_owner, release >>

\* Database.check_lock, line 129: open(self.lock_file, 'a').close()
create_lock(p) ==
    /\ lpc[p] = "create_lock"
    /\ lock_file' = TRUE
    /\ acquired' = [acquired EXCEPT ![p] = TRUE]
    /\ lpc' = [lpc EXCEPT ![p] = "auth"]
    /\ lock_owner' = p
    /\ UNCHANGED << passVars, regVars, largs, released, lexit, runs, forced, release >>

\* create_slack_client (560-569) called at line 617
create_slack_client(p) ==
    /\ lpc[p] = "auth"
    /\ \E ok \in BOOLEAN :
          IF ok THEN /\ lpc' = [lpc EXCEPT ![p] = "pass"]
                     /\ UNCHANGED lexit
                ELSE Exit(p, 2)
    /\ UNCHANGED << passVars, regVars, lock_file, largs, acquired, released, runs, forced,
                    lock_owner, release >>

\* the loop of main (621-630): it ends, or a scan, finished_process or
\* announce raises and nothing catches it
RunPass(p) ==
    /\ lpc[p] = "pass"
    /\ \E raised \in BOOLEAN :
          IF raised THEN Exit(p, 1)
                    ELSE /\ lpc' = [lpc EXCEPT ![p] = "close_db"]
                         /\ UNCHANGED lexit
    /\ UNCHANGED << passVars, regVars, lock_file, largs, acquired, released, runs, forced,
                    lock_owner, release >>

\* Database.close_db (140-142): commit_change, then os.remove(lock_file),
\* which raises FileNotFoundError when the file is gone
close_db(p) ==
    /\ lpc[p] = "close_db"
    /\ IF lock_file
       THEN /\ lock_file' = FALSE
            /\ released' = [released EXCEPT ![p] = TRUE]
            /\ release' = [release EXCEPT ![p] = IF lock_owner = p THEN "own" ELSE "other"]
            /\ lock_owner' = "nobody"
            /\ Exit(p, 0)
       ELSE /\ Exit(p, 1)
            /\ release' = [release EXCEPT ![p] = "missing"]
            /\ UNCHANGED << lock_file, released, lock_owner >>
    /\ UNCHANGED << passVars, regVars, largs, acquired, runs, forced >>

\* ------------------------------------------------------ the registry

\* an option that was not given on the command line
None == "None"

\* the registry file at the start: version 1, two projects, the Slack key
\* set once, map_process never set
InitialDb ==
    [ projects |-> {"P1", "P2"}, slack_key |-> "key1", projection |-> None ]

\* the registry options given on the command line a
Mutations(a) ==
    {o \in {"new_project", "remove_project", "slack_key", "set_map_process"} :
        a[o] # None}

\* command lines: one of --new-project P3, --remove-project P1,
\* --slack-key key2, --set-map-process slice, or --remove-project together
\* with --set-map-process, or --clear-lock, or none of them, each with or
\* without a processing option
RegistryArgs ==
    {a \in [ new_project : {None, "P3"},
             remove_project : {None, "P1"},
             slack_key : {None, "key2"},
             set_map_process : {None, "slice"},
             clear_lock : BOOLEAN,
             process : BOOLEAN ] :
        /\ \/ Cardinality(Mutations(a)) <= 1
           \/ Mutations(a) = {"remove_project", "set_map_process"}
        /\ a.clear_lock => Mutations(a) = {}}

NoRegistryArgs ==
    [ new_project |-> None, remove_project |-> None, slack_key |-> None,
      set_map_process |-> None, clear_lock |-> FALSE, process |-> FALSE ]

\* ---- the registry as a JSON document: a dict from top-level keys to values

\* a JSON string, and a JSON object given as its set of <<name, path>> items
Str(x) == [str |-> x, map |-> {}]
Map(items) == [str |-> "", map |-> items]

\* d[k] = v, and del d[k] for every k of ks
SetItem(d, k, v) == [x \in DOMAIN d \cup {k} |-> IF x = k THEN v ELSE d[x]]
DelItems(d, ks) == [x \in DOMAIN d \ ks |-> d[x]]

EmptyDict == [x \in {} |-> Str("")]

\* the keys the migration does not take for project names (line 89)
ReservedKeys == {"slack_key", "slack_dm", "settings"}

\* project names (the last component of the project directory) and the
\* directories they can stand for
StoreNames == {"A", "projects"}
StorePaths == {"/x", "/y"}

\* what the program stores under a reserved key
ReservedValue(k) ==
    CASE k = "slack_key" -> Str("xoxb")
      [] k = "slack_dm" -> Str("D01")
      [] k = "settings" -> Str("{}")

\* the documents of the layout without a version: the projects are top-level
\* keys next to slack_key, slack_dm and settings
OldDocuments ==
    UNION { {d \in [ks -> {Str(p) : p \in StorePaths} \cup {ReservedValue(k) : k \in ReservedKeys}] :
                \A k \in ks : IF k \in ReservedKeys THEN d[k] = ReservedValue(k)
                                                     ELSE d[k].str \in StorePaths} :
            ks \in SUBSET (StoreNames \cup ReservedKeys) }

\* a projects map: at most one path for each name
ProjectMaps ==
    {m \in SUBSET (StoreNames \X StorePaths) :
        \A i, j \in m : i[1] = j[1] => i = j}

\* the documents of layout version 1
NewDocuments ==
    UNION { {SetItem(SetItem([k \in ks |-> ReservedValue(k)], "projects", Map(m)),
                     "version", Str("1")) : m \in ProjectMaps} :
            ks \in SUBSET ReservedKeys }

NoFile == [exists |-> FALSE, doc |-> EmptyDict]

StoreFiles ==
    {NoFile} \cup {[exists |-> TRUE, doc |-> d] : d \in OldDocuments \cup NewDocuments}

\* the migration of Database.__init__, lines 88-93
migrate(d) ==
    LET projects == DOMAIN d \ ReservedKeys
        d1 == SetItem(d, "projects", Map({<<x, d[x].str>> : x \in projects}))
        d2 == DelItems(d1, projects)
    IN  SetItem(d2, "version", Str("1"))

\* Database.__init__, lines 85-98: json.load and the migration when the
\* document has no version, {} when there is no file
load_db(file) ==
    IF ~file.exists THEN EmptyDict
    ELSE IF "version" \notin DOMAIN file.doc THEN migrate(file.doc)
    ELSE file.doc

\* commit_change (135-138): db['settings'] = settings.settings, which is
\* the loaded settings object or a new empty dict, then json.dump
commit_change(d) ==
    [ exists |-> TRUE,
      doc |-> IF "settings" \in DOMAIN d THEN d ELSE SetItem(d, "settings", Str("{}")) ]

\* no invocation has touched the registry document file yet
StoreIs(file) ==
    /\ store_start = file
    /\ store_file = file
    /\ store_db = EmptyDict
    /\ store_pc = "start"
    /\ store_op = [kind |-> "none", name |-> "", path |-> ""]
    /\ store_result = "none"

\* a version-1 registry document with no project
InitialFile ==
    [ exists |-> TRUE,
      doc |-> SetItem(SetItem(EmptyDict, "projects", Map({})), "version", Str("1")) ]

InitRegistryFile ==
    /\ disk_db = InitialDb
    /\ db = [p \in Procs |-> InitialDb]
    /\ rpc = [p \in Procs |-> "exited"]
    /\ rargs = [p \in Procs |-> NoRegistryArgs]
    /\ rexit = [p \in Procs |-> 0]
    /\ at_exit = [p \in Procs |-> InitialDb]
    /\ mid_pass = [p \in Procs |-> {}]
    /\ rruns = 0

InitRegistry == InitRegistryFile /\ StoreIs(InitialFile)

\* ---------------------------------------------------------- specifications

Init == InitPass /\ InitLock /\ InitRegistry

Next ==
    \/ \E a \in PassArgs, clear \in BOOLEAN : Main(a, clear)
    \/ CreateSlackClient
    \/ ScanBegin
    \/ \E f \in Folders : ScanJob(f)
    \/ ScanEnd
    \/ ProcessJob
    \/ ProcessEnd
    \/ CloseDb
    \/ \E f \in Folders, m \in MarkerFiles : ToggleMarker(f, m)

Spec == Init /\ [][Next]_vars

\* Passes over every tree of marker files: the marker files are drawn in
\* the initial state and stay as they are, every pass is an ordinary
\* --process-all
ClassifyArgs == [ targets |-> RegistryProjects, force_process |-> FALSE, no_process |-> FALSE ]

InitClassify ==
    /\ markers \in [Folders -> SUBSET MarkerFiles]
    /\ folder_names = FolderNames
    /\ InitIdle
    /\ InitLock
    /\ InitRegistry

NextClassify ==
    \/ Main(ClassifyArgs, FALSE)
    \/ CreateSlackClient
    \/ ScanBegin
    \/ \E f \in Folders : ScanJob(f)
    \/ ScanEnd
    \/ ProcessJob
    \/ ProcessEnd
    \/ CloseDb

SpecClassify == InitClassify /\ [][NextClassify]_vars

\* Ordinary passes whose --process-project list may name a project that is
\* not in the registry, before or after one that is
TargetArgs ==
    { [ targets |-> t, force_process |-> FALSE, no_process |-> FALSE ] :
        t \in { << "P2" >>, << UnknownProject, "P2" >>, << "P2", UnknownProject >> } }

NextTargets ==
    \/ \E a \in TargetArgs, clear \in BOOLEAN : Main(a, clear)
    \/ CreateSlackClient
    \/ ScanBegin
    \/ \E f \in Folders : ScanJob(f)
    \/ ScanEnd
    \/ ProcessJob
    \/ ProcessEnd
    \/ CloseDb
    \/ \E f \in Folders, m \in MarkerFiles : ToggleMarker(f, m)

SpecTargets == Init /\ [][NextTargets]_vars

\* Passes over folders whose paths hold any of three type names, the
\* first, the second and the last of job_types, under every ignore list
\* made of these names; every job has exited with success
ResolveNames == {"Class3D", "CtfRefine", "MaskCreate"}

InitResolve ==
    /\ markers = [f \in Folders |-> {"RELION_JOB_EXIT_SUCCESS"}]
    /\ folder_names \in [Folders -> SUBSET ResolveNames]
    /\ InitNoPass
    /\ ignore_jobs \in SUBSET ResolveNames
    /\ InitLock
    /\ InitRegistry

NextResolve ==
    \/ Main(ClassifyArgs, FALSE)
    \/ CreateSlackClient
    \/ ScanBegin
    \/ \E f \in Folders : ScanJob(f)
    \/ ScanEnd
    \/ ProcessJob
    \/ ProcessEnd
    \/ CloseDb

SpecResolve == InitResolve /\ [][NextResolve]_vars

\* Spec with the invocations that enable and disable job types
NextIgnore ==
    \/ Next
    \/ \E t \in ToggleChoices : ToggleIgnoreJob(t)

SpecIgnore == Init /\ [][NextIgnore]_vars

NextLock ==
    \/ \E p \in Procs, a \in LockArgs : InvokeMain(p, a)
    \/ \E p \in Procs : check_lock(p)
    \/ \E p \in Procs : create_lock(p)
    \/ \E p \in Procs : create_slack_client(p)
    \/ \E p \in Procs : RunPass(p)
    \/ \E p \in Procs : close_db(p)

SpecLock == Init /\ [][NextLock]_vars

\* Database.new_project, line 151: self.db['projects'][project_name] = ...
new_project(d, name) == [d EXCEPT !.projects = @ \cup {name}]

\* Database.remove_project, lines 155-158: del self.db['projects'][name],
\* a KeyError is logged and nothing else happens
remove_project(d, name) == [d EXCEPT !.projects = @ \ {name}]

\* the registry work of main, lines 574-599, on the loaded registry d for
\* the command line a: the value of Database.db after it (mem), and what
\* the registry file holds after it (disk), which is the last dump made.
\* new_project, the slack_key setter and --set-map-process call
\* commit_change; remove_project calls none
RegistryWork(d, old_disk, a) ==
    LET d1 == IF a.new_project # None THEN new_project(d, a.new_project) ELSE d
        d2 == IF a.slack_key # None THEN [d1 EXCEPT !.slack_key = a.slack_key] ELSE d1
        d3 == IF a.remove_project # None THEN remove_project(d2, a.remove_project) ELSE d2
        d4 == IF a.set_map_process # None
              THEN [d3 EXCEPT !.projection = a.set_map_process] ELSE d3
    IN  [ mem |-> d4,
          disk |-> IF a.set_map_process # None THEN d4
                   ELSE IF a.slack_key # None THEN d2
                   ELSE IF a.new_project # None THEN d1
                   ELSE old_disk ]

\* the invocation p ends with the exit status code
RegistryExit(p, code, disk) ==
    /\ rpc' = [rpc EXCEPT ![p] = "exited"]
    /\ rexit' = [rexit EXCEPT ![p] = code]
    /\ at_exit' = [at_exit EXCEPT ![p] = disk]

\* Database.__init__, lines 82-100, called at line 573: the registry
\* file is loaded into self.db
LoadDb(p, a) ==
    /\ rpc[p] = "exited"
    /\ rruns < MaxRuns
    /\ rruns' = rruns + 1
    /\ rargs' = [rargs EXCEPT ![p] = a]
    /\ db' = [db EXCEPT ![p] = disk_db]
    /\ rpc' = [rpc EXCEPT ![p] = "loaded"]
    /\ rexit' = [rexit EXCEPT ![p] = -1]
    /\ mid_pass' = [mid_pass EXCEPT ![p] = {}]
    /\ UNCHANGED << disk_db, at_exit, lock_file, passVars, lockVars, storeVars >>

\* main, lines 574-609: the registry work with its commits, clear_lock if
\* asked, exit(0) when no processing was requested, else check_lock
MutateDb(p) ==
    /\ rpc[p] = "loaded"
    /\ LET w == RegistryWork(db[p], disk_db, rargs[p])
           lock == IF rargs[p].clear_lock THEN clear_lock(lock_file) ELSE lock_file
       IN  /\ db' = [db EXCEPT ![p] = w.mem]
           /\ disk_db' = w.disk
           /\ mid_pass' = [q \in Procs |->
                  IF q # p /\ rpc[q] = "pass"
                  THEN mid_pass[q] \cup ({rargs[p].new_project} \ {None})
                  ELSE mid_pass[q]]
           /\ IF ~rargs[p].process
              THEN /\ RegistryExit(p, 0, w.disk)
                   /\ lock_file' = lock
              ELSE IF lock
              THEN /\ RegistryExit(p, 1, w.disk)
                   /\ lock_file' = lock
              ELSE /\ rpc' = [rpc EXCEPT ![p] = "pass"]
                   /\ lock_file' = TRUE
                   /\ UNCHANGED << rexit, at_exit >>
    /\ UNCHANGED << rargs, rruns, passVars, lockVars, storeVars >>

\* the pass of p fails with an uncaught exception (lines 616-630):
\* nothing is committed and the lock file stays
PassRaises(p) ==
    /\ rpc[p] = "pass"
    /\ RegistryExit(p, 1, disk_db)
    /\ UNCHANGED << disk_db, db, rargs, mid_pass, rruns, lock_file, passVars, lockVars, storeVars >>

\* Database.close_db at the end of the pass of p (line 632): commit_change
\* dumps self.db as p holds it, then os.remove(lock_file)
CloseDbOf(p) ==
    /\ rpc[p] = "pass"
    /\ disk_db' = db[p]
    /\ IF lock_file
       THEN /\ lock_file' = FALSE
            /\ RegistryExit(p, 0, db[p])
       ELSE /\ UNCHANGED lock_file
            /\ RegistryExit(p, 1, db[p])
    /\ UNCHANGED << db, rargs, mid_pass, rruns, passVars, lockVars, storeVars >>

NextRegistry ==
    \/ \E p \in Procs, a \in RegistryArgs : LoadDb(p, a)
    \/ \E p \in Procs : MutateDb(p)
    \/ \E p \in Procs : PassRaises(p)
    \/ \E p \in Procs : CloseDbOf(p)

SpecRegistry == Init /\ [][NextRegistry]_vars

\* ---- one invocation on a registry document of any layout, or on none

\* command lines: --new-project with a directory, --list-projects,
\* --process-all
StoreOps ==
    {[kind |-> "new_project", name |-> n, path |-> p] : n \in StoreNames, p \in StorePaths}
        \cup {[kind |-> k, name |-> "", path |-> ""] : k \in {"list_projects", "process_all"}}

NoStoreOp == [kind |-> "none", name |-> "", path |-> ""]

InitStore ==
    /\ InitPass
    /\ InitLock
    /\ InitRegistryFile
    /\ store_start \in StoreFiles
    /\ store_file = store_start
    /\ store_db = EmptyDict
    /\ store_pc = "start"
    /\ store_op = NoStoreOp
    /\ store_result = "none"

\* the invocation ends, normally or with the exception raised
StoreExit(how) ==
    /\ store_pc' = "exited"
    /\ store_result' = how

StoreFrame ==
    UNCHANGED << passVars, lock_file, lockVars, disk_db, db, rpc, rargs, rexit,
                 at_exit, mid_pass, rruns, store_start >>

\* Database(args.db) at line 573
StoreLoad(o) ==
    /\ store_pc = "start"
    /\ store_op' = o
    /\ store_db' = load_db(store_file)
    /\ store_pc' = "loaded"
    /\ UNCHANGED << store_file, store_result >>
    /\ StoreFrame

\* Database.new_project (144-152): self.db['projects'][name] = dir raises
\* KeyError when db has no 'projects'; else commit_change
StoreNewProject ==
    /\ store_pc = "loaded"
    /\ store_op.kind = "new_project"
    /\ IF "projects" \in DOMAIN store_db
       THEN LET old == store_db["projects"].map
                new == {i \in old : i[1] # store_op.name}
                           \cup {<<store_op.name, store_op.path>>}
                d == SetItem(store_db, "projects", Map(new))
            IN  /\ store_db' = d
                /\ store_file' = commit_change(d)
                /\ StoreExit("ok")
       ELSE /\ StoreExit("KeyError")
            /\ UNCHANGED << store_db, store_file >>
    /\ UNCHANGED store_op
    /\ StoreFrame

\* --list-projects (lines 585-586): Database.current_projects (120-122) is
\* self.db['projects'].keys()
StoreListProjects ==
    /\ store_pc = "loaded"
    /\ store_op.kind = "list_projects"
    /\ StoreExit(IF "projects" \in DOMAIN store_db THEN "ok" ELSE "KeyError")
    /\ UNCHANGED << store_db, store_file, store_op >>
    /\ StoreFrame

\* --process-all (lines 609-632): process_targets = db.current_projects,
\* the loop over them, in which a project may raise, then close_db
StoreProcessAll ==
    /\ store_pc = "loaded"
    /\ store_op.kind = "process_all"
    /\ IF "projects" \notin DOMAIN store_db
       THEN /\ StoreExit("KeyError")
            /\ UNCHANGED store_file
       ELSE \E raised \in {r \in BOOLEAN : r => store_db["projects"].map # {}} :
               IF raised
               THEN /\ StoreExit("Exception")
                    /\ UNCHANGED store_file
               ELSE /\ StoreExit("ok")
                    /\ store_file' = commit_change(store_db)
    /\ UNCHANGED << store_db, store_op >>
    /\ StoreFrame

NextStore ==
    \/ \E o \in StoreOps : StoreLoad(o)
    \/ StoreNewProject
    \/ StoreListProjects
    \/ StoreProcessAll

SpecStore == InitStore /\ [][NextStore]_vars

\* ------------------------------------------------------ claims on the lock

\* p is between a successful check_lock and its close_db
Holding(p) == lpc[p] \in {"auth", "pass", "close_db"}

\* C1: mutual exclusion of passes: as long as no --clear-lock has removed
\* a lock file, at most one invocation is between a successful check_lock
\* and its release.
C1_MutualExclusion ==
    ~forced => \A p, q \in Procs : Holding(p) /\ Holding(q) => p = q

\* C2: lock release on every path: an invocation that created the lock
\* file and has exited has removed it, whatever way it exited.
C2_ReleasedOnExit ==
    \A p \in Procs : lpc[p] = "exited" /\ acquired[p] => released[p]

\* ---------------------------------------------------- claims on the pass

\* the last invocation got past create_slack_client and has ended
PassEnded == pc = "idle" /\ result \in {"done", "crashed"}

\* scan_for_jobs constructed a job for folder f in this pass
Scanned(f) == constructed[f].scanned

\* ... and its classified status differs from the persisted one
Changed(f) == Scanned(f) /\ constructed[f].status # constructed[f].old_status

Terminal == {"Finished", "Failed", "User Abort"}

ExtractionsDue(f) == IF constructed[f].status = "Finished" THEN 1 ELSE 0

\* C3: exactly-one-on-change: when a pass that processes has ended, every
\* job it scanned whose status changed to a status other than Pending got
\* exactly one notification, and exactly one extraction iff it is Finished.
C3_ExactlyOneOnChange ==
    PassEnded /\ ~args.no_process =>
        \A f \in Folders :
            Changed(f) /\ constructed[f].status # "Pending" =>
                sent[f] = 1 /\ extracted[f] = ExtractionsDue(f)

\* no finished_process and no announce was called for folder f in this pass
Silent(f) == attempts[f] = 0 /\ sent[f] = 0 /\ extracted[f] = 0

\* C4: idempotence: an ordinary pass that follows an ordinary pass over the
\* same projects that ran to its end, with no marker file changed in
\* between, sends no notification and runs no extraction; and in any pass
\* without --force-process a job whose marker files did not change since an
\* earlier pass constructed it gets no notification and no extraction.
C4_Idempotent ==
    /\ repeat => \A f \in Folders : Silent(f)
    /\ ~args.force_process =>
          \A f \in Folders : Scanned(f) /\ constructed[f].same_markers => Silent(f)

\* C4 witness: a second, ordinary pass has run to its end and evaluated a
\* job that is not Pending and whose markers are those of the pass before.
C4_Witness ==
    /\ pc = "idle" /\ result = "done" /\ passes = 2
    /\ repeat
    /\ \E f \in evaluated :
          /\ constructed[f].same_markers
          /\ constructed[f].status # "Pending"
          /\ attempts[f] = 0

\* C5 as claimed: a job whose classified status equals its persisted status
\* is not announced, in any mode.
C5_UnchangedNeverAnnounced ==
    \A f \in Folders :
        Scanned(f) /\ constructed[f].status = constructed[f].old_status =>
            attempts[f] = 0

\* C5 as amended: a job whose classified status equals its persisted status
\* is not announced in a pass that runs without --force-process.
C5_UnchangedSilentWithoutForce ==
    \A f \in Folders :
        /\ Scanned(f)
        /\ constructed[f].status = constructed[f].old_status
        /\ ~args.force_process
        => attempts[f] = 0 /\ sent[f] = 0

\* C5 witness: process_jobs of a pass without --force-process has looked at
\* a job whose status is the persisted one, a status other than Pending,
\* and has not announced it.
C5_Witness ==
    /\ ~args.force_process
    /\ \E f \in evaluated :
          /\ constructed[f].status = constructed[f].old_status
          /\ constructed[f].old_status = store_before[f]
          /\ constructed[f].status \in Terminal \cup {"Running"}
          /\ attempts[f] = 0

\* C6: no-Pending-notify, for the passes without --force-process: a job
\* classified Pending is not announced and not extracted, whatever its
\* persisted status was.
C6_PendingNeverAnnounced ==
    ~args.force_process =>
        \A f \in Folders :
            Scanned(f) /\ constructed[f].status = "Pending" =>
                attempts[f] = 0 /\ extracted[f] = 0

\* C7: a failed notification is not fatal: when announce has failed for a
\* job, the invocation has not been ended by it, and once the pass has ended
\* every changed job of the pass has had its own notification attempt.
C7_NotifyFailureNotFatal ==
    (\E f \in Folders : attempts[f] > sent[f]) =>
        /\ result # "crashed"
        /\ PassEnded =>
              \A g \in Folders :
                  Changed(g) /\ constructed[g].status # "Pending" => attempts[g] = 1

MarkerStatus ==
    [ m \in MarkerFiles |->
        CASE m = "run.out" -> "Running"
          [] m = "RELION_JOB_EXIT_FAILURE" -> "Failed"
          [] m = "RELION_JOB_EXIT_ABORTED" -> "User Abort"
          [] m = "RELION_JOB_EXIT_SUCCESS" -> "Finished" ]

Precedence ==
    [ s \in StatusValues |->
        CASE s = "Pending" -> 0
          [] s = "Running" -> 1
          [] s = "Failed" -> 2
          [] s = "User Abort" -> 3
          [] s = "Finished" -> 4 ]

HighestPresent(present) ==
    IF present = {} THEN "Pending"
    ELSE CHOOSE s \in {MarkerStatus[m] : m \in present} :
            \A m \in present : Precedence[MarkerStatus[m]] <= Precedence[s]

\* C9: precedence determinism: the status of every constructed job is the
\* status of the highest-precedence marker file present in its folder
\* (Finished > User Abort > Failed > Running), and Pending when none is.
C9_Precedence ==
    \A f \in Folders :
        Scanned(f) => constructed[f].status = HighestPresent(markers[f])

\* C9 witness: a job was constructed from a folder holding run.out,
\* EXIT_FAILURE and EXIT_SUCCESS, and another from a folder holding
\* EXIT_FAILURE and EXIT_ABORTED.
C9_Witness ==
    \E f, g \in Folders :
        /\ Scanned(f)
        /\ markers[f] = {"run.out", "RELION_JOB_EXIT_FAILURE", "RELION_JOB_EXIT_SUCCESS"}
        /\ constructed[f].status = "Finished"
        /\ Scanned(g)
        /\ markers[g] = {"RELION_JOB_EXIT_FAILURE", "RELION_JOB_EXIT_ABORTED"}
        /\ constructed[g].status = "User Abort"

\* C10: first-sight terminal jobs notify once: when an ordinary pass has
\* ended, every job it scanned that had no status record and is Finished,
\* Failed or User Abort got exactly one notification (and one extraction iff
\* Finished), and its record holds that status.
C10_FirstSightNotifiesOnce ==
    PassEnded /\ ~args.no_process /\ ~args.force_process =>
        \A f \in Folders :
            Scanned(f) /\ store_before[f] = NoStatus /\ constructed[f].status \in Terminal =>
                /\ sent[f] = 1
                /\ extracted[f] = ExtractionsDue(f)
                /\ status_file[f] = constructed[f].status

\* C11: a pass run with --no-process attempts no notification and no extraction
\* for any job, yet the status file of every job it scanned holds the state
\* classified from the job's markers; and in an ordinary pass that comes next,
\* with no marker changed in between, every job the --no-process pass scanned
\* stays without notification and without extraction.
C11_NoProcessAbsorbs ==
    /\ args.no_process =>
           \A f \in Folders :
               /\ Silent(f)
               /\ Scanned(f) => status_file[f] = check_status(markers[f])
    /\ ~args.no_process /\ ~args.force_process =>
           \A f \in absorbed : Silent(f)

\* an ordinary pass that ran to its end right after a --no-process pass has
\* evaluated a job in a terminal state which that pass had scanned, silently
C11_Witness ==
    /\ PassEnded /\ result = "done"
    /\ ~args.no_process /\ ~args.force_process
    /\ \E f \in absorbed :
           /\ f \in evaluated
           /\ constructed[f].status \in Terminal
           /\ store_before[f] = constructed[f].status
           /\ Silent(f)

\* C12: an invocation whose check_lock finds the lock file ends at once with
\* a non-zero exit status: it scans no job, leaves every status file as it
\* was, attempts no notification and no extraction, and leaves the lock file
\* in place.
C12_LockedPassSkipped ==
    found_lock =>
        /\ pc = "idle"
        /\ result = "locked"
        /\ ExitCode # 0
        /\ lock_file
        /\ status_file = store_before
        /\ \A f \in Folders : ~Scanned(f) /\ Silent(f)

\* an invocation found the lock file left by a pass that had crashed after
\* it had written the status of a job
C12_Witness ==
    /\ found_lock
    /\ result = "locked"
    /\ lock_file
    /\ \E f \in Folders : status_file[f] \in Terminal

\* ------------------------------------------------------ claims on the registry

\* the registry d holds every mutation the command line a asked for
Reflects(a, d) ==
    /\ a.new_project # None => a.new_project \in d.projects
    /\ a.remove_project # None => a.remove_project \notin d.projects
    /\ a.slack_key # None => d.slack_key = a.slack_key
    /\ a.set_map_process # None => d.projection = a.set_map_process

\* C13: when an invocation has ended, the registry file as it is at that
\* moment holds every registry mutation the invocation was asked for (project
\* added, project removed, Slack key set, map process set), whether or not a
\* processing pass was requested.
C13_MutationsDurable ==
    \A p \in Procs :
        rpc[p] = "exited" => Reflects(rargs[p], at_exit[p])

\* C14: when a pass has finished and committed, every project that another
\* invocation added and committed while the pass was running is in the
\* registry file.
C14_InterleavedMutationKept ==
    \A p \in Procs :
        rpc[p] = "exited" /\ rargs[p].process /\ rexit[p] = 0 =>
            mid_pass[p] \subseteq at_exit[p].projects

\* ------------------------------------------------------ claims on the order of steps within a pass

C16_ExtractionFailureDegrades ==
    \A f \in Folders :
        extracted[f] > 0 => attempts[f] = extracted[f]

\* C17: the persisted status of every job the scanner constructed is the state
\* classified from the job's markers, whether or not that state changed and
\* whether or not anything was announced; it is one of the five status values;
\* and for a job whose markers did not change since it was last constructed it
\* is the value that was in the status file before the pass.
C17_UnconditionalPersist ==
    \A f \in Folders :
        /\ status_file[f] \in StatusValues \cup {NoStatus}
        /\ Scanned(f) =>
               /\ status_file[f] \in StatusValues
               /\ status_file[f] = check_status(markers[f])
               /\ constructed[f].same_markers => status_file[f] = store_before[f]

\* a pass ran to its end having constructed one job whose state changed and
\* one job in a terminal state whose markers had not changed, which it did
\* not announce
C17_Witness ==
    /\ PassEnded /\ result = "done"
    /\ \E f, g \in Folders :
           /\ Changed(f)
           /\ status_file[f] = constructed[f].status
           /\ Scanned(g) /\ constructed[g].same_markers
           /\ constructed[g].status \in Terminal
           /\ attempts[g] = 0
           /\ status_file[g] = store_before[g]

\* C18: a pass whose target list names a project that is not in the registry
\* touches no job, wherever the unknown name stands in the list: no status
\* file is written, no job is constructed, no extraction and no notification
\* is attempted.
C18_UnknownTargetTouchesNothing ==
    (\E i \in DOMAIN args.targets : args.targets[i] = UnknownProject) =>
        /\ status_file = store_before
        /\ \A f \in Folders : ~Scanned(f) /\ Silent(f)

\* C19: when a pass that processes has run to its end, every job folder whose
\* state was written during the scan, that is every job that was constructed,
\* has also been evaluated by process_jobs, two folders with the same
\* three-digit job number included.
C19_ScannedAreEvaluated ==
    PassEnded /\ result = "done" /\ ~args.no_process =>
        \A f \in Folders : Scanned(f) => f \in evaluated

\* ------------------------------------------------------ claims on the release of the lock

\* C20: once a --clear-lock has removed a lock file, the release of every
\* pass that was running still removes nothing but the lock file that pass
\* created itself: it does not remove the lock file another pass created in
\* the meantime, and it does not fail when the lock file is gone.
C20_ReleaseOnlyOwn ==
    forced => \A p \in Procs : release[p] \in {"none", "own"}

\* ------------------------------------------------------ claims on the scanner

\* the first type, in the order of job_types, that is not ignored and whose
\* name occurs in the path of f, "False" when there is none
FirstEnabledMatch(f) ==
    LET idx == {i \in 1..Len(job_types) :
                   job_types[i] \notin ignore_jobs /\ job_types[i] \in folder_names[f]}
    IN  IF idx = {} THEN "False"
        ELSE job_types[CHOOSE i \in idx : \A j \in idx : i <= j]

\* C21: a job folder is constructed with the first type, in the order
\* Class3D, CtfRefine, Extract, InitialModel, PostProcess, Refine3D, MultiBody,
\* MaskCreate, that is enabled and whose name occurs in the folder's path; a
\* folder that no enabled type matches is skipped: it is not constructed, its
\* status file stays as it was, nothing is extracted or announced for it, and
\* a pass in which every folder is skipped does not fail; once the pass has
\* run to its end every folder of its target projects that an enabled type
\* matches was constructed.
C21_TypeResolution ==
    /\ \A f \in Folders :
          /\ Scanned(f) =>
                 /\ constructed[f].type # "False"
                 /\ constructed[f].type = FirstEnabledMatch(f)
          /\ FirstEnabledMatch(f) = "False" =>
                 /\ ~Scanned(f)
                 /\ status_file[f] = store_before[f]
                 /\ Silent(f)
          /\ PassEnded /\ result = "done" /\ FirstEnabledMatch(f) # "False"
                       /\ (\E i \in DOMAIN args.targets : args.targets[i] = FolderProject[f]) =>
                 Scanned(f)
    /\ (\A f \in Folders : FirstEnabledMatch(f) = "False") => result # "crashed"

\* a pass ran to its end having constructed a folder that two enabled types
\* match, and having skipped a folder whose only matching types are ignored
C21_Witness ==
    /\ PassEnded /\ result = "done"
    /\ \E f, g \in Folders :
          /\ Scanned(f)
          /\ Cardinality(folder_names[f] \ ignore_jobs) >= 2
          /\ attempts[f] > 0
          /\ folder_names[g] # {}
          /\ folder_names[g] \subseteq ignore_jobs
          /\ ~Scanned(g)
          /\ status_file[g] = NoStatus

\* ------------------------------------------------------ claims on the registry document

\* C22: the registry loaded from a document without a version has version 1,
\* a projects map that holds exactly the old top-level entries other than
\* slack_key, slack_dm and settings, each with its path, and the same
\* slack_key, slack_dm and settings; the registry loaded from a document
\* with a version is that document.
C22_MigrationKeepsData ==
    store_pc = "loaded" /\ store_start.exists =>
        LET d == store_start.doc
            m == store_db
        IN  IF "version" \in DOMAIN d
            THEN m = d
            ELSE /\ "version" \in DOMAIN m
                 /\ m["version"] = Str("1")
                 /\ "projects" \in DOMAIN m
                 /\ m["projects"] = Map({<<k, d[k].str>> : k \in DOMAIN d \ ReservedKeys})
                 /\ \A k \in ReservedKeys :
                       /\ k \in DOMAIN d <=> k \in DOMAIN m
                       /\ k \in DOMAIN d => m[k] = d[k]

\* C24: an invocation on a registry file that does not exist ends without
\* error, whether it adds a project, lists the projects or processes all of
\* them; after adding a project the registry file exists and its projects
\* map holds the project's name with its path.
C24_EmptyStoreWorks ==
    store_pc = "exited" /\ ~store_start.exists =>
        /\ store_result = "ok"
        /\ store_op.kind = "new_project" =>
               /\ store_file.exists
               /\ "projects" \in DOMAIN store_file.doc
               /\ <<store_op.name, store_op.path>> \in store_file.doc["projects"].map

\* ------------------------------------------------------ claims on ignored job types

\* the type of f is matched only by a type that is in the ignore list
Ignored(f) == MatchJobType(f, {}) # "False" /\ MatchJobType(f, ignore_jobs) = "False"

\* C23: in a pass made while the type of a job is in the ignore list the
\* status file of the job stays as it was and nothing is extracted or
\* announced for it; and when the first ordinary pass that constructs the job
\* after its type was enabled again has ended, exactly one notification was
\* sent for the job if its state differs from the persisted one.
C23_DisabledTypeFrozen ==
    \A f \in Folders :
        /\ result \in {"running", "done", "crashed"} /\ Ignored(f) =>
               /\ status_file[f] = store_before[f]
               /\ Silent(f)
        /\ PassEnded /\ ~args.no_process /\ ~args.force_process
                     /\ frozen[f] = "thawed" /\ Changed(f) =>
               /\ attempts[f] = 1
               /\ sent[f] = 1

====
